---- MODULE Spec2Model ----
(***************************************************************************)
(* Model of src/src/lib/py_class.ts: newClass (C3 linearization, the       *)
(* ClassConstructor, the __super__ dispatcher, slots) as a state machine.  *)
(* Classes are numbered 1..Len(classes) in the order newClass returned     *)
(* them; a class's __mro__ array lives in classes[c].mro and is shared by  *)
(* reference with every later reader, as in the source.                    *)
(***************************************************************************)
EXTENDS Integers, Sequences, FiniteSets, TLC

\* ---------------------------------------------------------------- bounds
MaxClasses == 4      \* classes defined in a run of SpecMro
MaxParents == 2      \* length of a bases list
MaxObjClasses == 3   \* classes defined in a run of Spec
MaxSlotClasses == 2  \* classes defined in a run of SpecSlots
MaxChainClasses == 3 \* classes defined in a run of SpecChain
MaxDepth == 3        \* user-code frames on the call stack
MaxNewClasses == 2   \* classes defined in a run of SpecNew
MaxStrClasses == 2   \* classes defined in a run of SpecStr
MaxKeyClasses == 2   \* classes defined in a run of SpecKeys
MaxPropClasses == 2  \* classes defined in a run of SpecProps
MaxGetCalls == 3     \* getInstance calls in a run of SpecSingleton
MaxMemoIds == 3      \* distinct cache keys in a run of SpecMemo
MemoMaxSize == 2     \* the maxSize argument of memoize in a run of SpecMemo
MaxReentry == 2      \* getInstance activations at one time

\* the keys a definition object may carry as instance members, and the field
\* names user code assigns
Names == {"__init__", "m"}
FieldKeys == {"a", "b"}
\* a function every plain object inherits from Object.prototype
ProtoNames == {"toString"}
Reserved == {"__class__", "__super__"}

VARIABLES
    classes,    \* the constructors newClass has returned:
                \*   [bases, def (own member keys, in key order), slots, mro]
    mro0,       \* history: mro0[c] is c's __mro__ when newClass returned c
    hung,       \* control is inside merge's while loop and cannot leave it
    lastDef,    \* history: the last newClass call, [bases, conflict, returned]
    inst,       \* the instance the program holds (NoInst: none)
    stack,      \* call stack of user-code activations, innermost last
    exc,        \* what the last step raised ("none": it completed normally)
    call,       \* the __super__ call the last step made (NoCall: it made none)
    ran,        \* history: the classes whose __init__ was invoked during the
                \* last construction, by the constructor and then by the
                \* scripted bodies of SpecChain, in order of invocation
    definitions,\* definitions[c]: the definition object class c was made from,
                \*   [keys (its top-level keys, in order), props]
    vals,       \* the values of the instance's data fields
    out,        \* what the last step did that its caller can observe: the
                \* result of __new__, of a conversion, of a property access
                \* (NoOut: nothing of the kind)
    sgl,        \* a singleton made by newSingleton and its instances
    memo        \* a function made by memoize: its cache and its key list

vars ==
    <<classes, mro0, hung, lastDef, inst, stack, exc, call, ran,
      definitions, vals, out, sgl, memo>>

\* ------------------------------------------------------- sequence helpers
\* Array.prototype.indexOf: 0-based position of the first occurrence, or -1.
RECURSIVE IndexFrom(_, _, _)
IndexFrom(s, x, i) ==
    IF i > Len(s) THEN -1
    ELSE IF s[i] = x THEN i - 1
    ELSE IndexFrom(s, x, i + 1)

IndexOf(s, x) == IndexFrom(s, x, 1)

Range(s) == {s[i] : i \in 1..Len(s)}

TailOf(s) == IF Len(s) = 0 THEN << >> ELSE Tail(s)

NoDup(s) == \A i, j \in 1..Len(s) : i # j => s[i] # s[j]

\* every sequence over S of length at most n
SeqsUpTo(S, n) == UNION {[1..k -> S] : k \in 0..n}

\* ------------------------------------------------------------ linearize
(* The arrays merge works on.  seqs[i] for i <= Len(parents) IS the array   *)
(* parents[i].__mro__ (parents.map((b) => b.__mro__ ?? [b]) copies nothing);*)
(* the last one is parents.slice(), a fresh copy.  A merge state is         *)
(* [mros |-> the __mro__ array of every class, plist |-> the copy].         *)
NSeqs(parents) == Len(parents) + 1

SeqAt(st, parents, i) ==
    IF i <= Len(parents) THEN st.mros[parents[i]] ELSE st.plist

\* variant: any head is taken, the tails are not looked at
EligibleAnyHead(st, parents, cand) == TRUE

\* seqs.every((s) => s.indexOf(cand) <= 0)
Eligible(st, parents, cand) ==
    \A i \in 1..NSeqs(parents) : IndexOf(SeqAt(st, parents, i), cand) <= 0

\* the for loop: the first seq whose head exists and is eligible, or 0
RECURSIVE FirstCand(_, _, _)
FirstCand(st, parents, i) ==
    IF i > NSeqs(parents) THEN 0
    ELSE LET seq == SeqAt(st, parents, i) IN
         IF Len(seq) > 0 /\ Eligible(st, parents, seq[1]) THEN i
         ELSE FirstCand(st, parents, i + 1)

\* seqs.forEach((s) => s[0] === cand && s.shift()), one array after another:
\* an array that occurs twice in seqs is seen shifted the second time.
RECURSIVE ShiftAll(_, _, _, _)
ShiftAll(st, parents, cand, i) ==
    IF i > NSeqs(parents) THEN st
    ELSE LET seq == SeqAt(st, parents, i)
             hit == Len(seq) > 0 /\ seq[1] = cand
             st2 == IF ~hit THEN st
                    ELSE IF i <= Len(parents)
                         THEN [st EXCEPT !.mros[parents[i]] = Tail(seq)]
                         ELSE [st EXCEPT !.plist = Tail(seq)]
         IN ShiftAll(st2, parents, cand, i + 1)

\* merge: the while loop.  When seqs remain and no head is eligible the for
\* loop ends without a break, nothing has changed, and the while loop runs
\* again on the same arrays: the call never returns (spin = TRUE).
RECURSIVE merge(_, _, _)
merge(st, parents, result) ==
    IF \A i \in 1..NSeqs(parents) : Len(SeqAt(st, parents, i)) = 0
    THEN [mros |-> st.mros, result |-> result, spin |-> FALSE]
    ELSE LET i == FirstCand(st, parents, 1) IN
         IF i = 0
         THEN [mros |-> st.mros, result |-> result, spin |-> TRUE]
         ELSE LET cand == SeqAt(st, parents, i)[1] IN
              merge(ShiftAll(st, parents, cand, 1), parents,
                    Append(result, cand))

\* linearize(cls, parents) on the current class table
linearize(cls, parents) ==
    LET st0 == [mros |-> [c \in 1..Len(classes) |-> classes[c].mro],
                plist |-> parents]
        m == merge(st0, parents, << >>)
    IN [mros |-> m.mros, mro |-> <<cls>> \o m.result, spin |-> m.spin]

\* ------------------------------------------------- C3 as a specification
\* The parents' linearizations as they were when each parent was defined.
\* C3 admits a merge iff the loop below, run on copies, finds a head each
\* round; Conflict(parents) says it does not.
RECURSIVE RefMerge(_, _)
RefMerge(seqs, result) ==
    IF \A i \in 1..Len(seqs) : Len(seqs[i]) = 0
    THEN [result |-> result, conflict |-> FALSE]
    ELSE LET heads == {i \in 1..Len(seqs) :
                         /\ Len(seqs[i]) > 0
                         /\ \A j \in 1..Len(seqs) :
                               seqs[i][1] \notin Range(TailOf(seqs[j]))}
         IN IF heads = {}
            THEN [result |-> result, conflict |-> TRUE]
            ELSE LET i == CHOOSE k \in heads : \A l \in heads : k <= l
                     c == seqs[i][1]
                 IN RefMerge([j \in 1..Len(seqs) |->
                                 IF Len(seqs[j]) > 0 /\ seqs[j][1] = c
                                 THEN Tail(seqs[j]) ELSE seqs[j]],
                             Append(result, c))

RefSeqs(parents) ==
    [i \in 1..Len(parents) |-> mro0[parents[i]]] \o <<parents>>

Conflict(parents) == RefMerge(RefSeqs(parents), << >>).conflict

\* --------------------------------------------------------------- values
\* a JavaScript value: what typeof says of it and how it prints
Val(type, text) == [type |-> type, text |-> text]

Undefined == Val("undefined", "undefined")
Null == Val("object", "null")
False == Val("boolean", "false")
True == Val("boolean", "true")
Zero == Val("number", "0")
One == Val("number", "1")
Two == Val("number", "2")
Empty == Val("string", "")
StrA == Val("string", "a")
\* an object other than null
Obj == Val("object", "{}")

\* !v
Falsy(v) == v \in {Undefined, Null, False, Zero, Empty}

\* JSON.stringify(v) inside a template literal
JSONStringify(v) ==
    IF v.type = "string" THEN "\"" \o v.text \o "\"" ELSE v.text

\* the values user code stores in fields
Values == {One, Two, StrA}

\* the data field names of the programs below; PropName is the name the
\* __properties__ of a definition declares
PropName == "value"
ValKeys == {"x", "y", "_value", PropName}
NoVals == [k \in ValKeys |-> Undefined]

\* op: what was done; hint: the conversion hint; arg: the value passed in;
\* val: the value that came out (for an assignment: what the setter got);
\* before: what a read of the property returned before the step; calls: how
\* many times the setter was invoked
NoOut == [op |-> "none", hint |-> "", arg |-> Undefined, val |-> Undefined,
          before |-> Undefined, calls |-> 0]

\* --------------------------------------------------- definition objects
\* the keys that can become members of an instance
MemberNames == Names \cup {"__str__", "__int__", "__repr__"}

\* k.startsWith("__") and k.startsWith("_") on the keys used here
StartsWith2(k) ==
    k \in {"__new__", "__init__", "__str__", "__int__", "__repr__",
           "__properties__", "__static__", "__class__", "__slots__",
           "__super__"}

StartsWith1(k) == StartsWith2(k) \/ k \in {"_value", "_superContext"}

\* instanceMembers: the entries of definition whose key does not start with
\* "__", and __init__, __str__, __int__
instanceMembers(keys) ==
    LET Keep(k) == ~StartsWith2(k) \/ k \in {"__init__", "__str__", "__int__"}
    IN SelectSeq(keys, Keep)

\* definition.__properties__: absent, or one property PropName with a
\* getter and/or a setter
NoProps == [on |-> FALSE, get |-> FALSE, set |-> FALSE]

PropChoices ==
    {[on |-> TRUE, get |-> g, set |-> t] : g, t \in BOOLEAN}

\* the definition object of a class declared with member keys only
Plain(def) == [keys |-> def, props |-> NoProps]

\* ------------------------------------------------------ ClassConstructor
NoInst ==
    [cls |-> 0, keys |-> << >>, bind |-> [n \in MemberNames |-> 0], ctx |-> 0,
     ext |-> TRUE, built |-> FALSE, acc |-> NoProps]

HasKey(o, k) == k \in Range(o.keys)

\* instance[k] = (...a) => v(instance, ...a), v taken from class owner
SetMember(o, k, owner) ==
    [o EXCEPT !.keys = IF HasKey(o, k) THEN @ ELSE Append(@, k),
              !.bind[k] = owner]

\* step 3, inner loop: the entries of B.__definition__ from position j on
RECURSIVE InheritDef(_, _, _, _)
InheritDef(o, B, own, j) ==
    IF j > Len(classes[B].def) THEN o
    ELSE LET k == classes[B].def[j] IN
         InheritDef(IF ~HasKey(o, k) /\ k \notin Range(own)
                    THEN SetMember(o, k, B) ELSE o,
                    B, own, j + 1)

\* step 3, outer loop: for (const B of bases)
RECURSIVE InheritBases(_, _, _, _)
InheritBases(o, bases, own, i) ==
    IF i > Len(bases) THEN o
    ELSE InheritBases(InheritDef(o, bases[i], own, 1), bases, own, i + 1)

\* step 4: own members
RECURSIVE OwnMembers(_, _, _, _)
OwnMembers(o, cls, own, j) ==
    IF j > Len(own) THEN o
    ELSE OwnMembers(SetMember(o, own[j], cls), cls, own, j + 1)

\* step 5: Object.defineProperty(instance, k, { get, set, enumerable: true,
\* configurable: true }) for the class's own __properties__
PropsStep(o, props) ==
    IF ~props.on THEN o
    ELSE [o EXCEPT !.keys = IF HasKey(o, PropName) THEN @
                            ELSE Append(@, PropName),
                   !.acc = props]

\* variant: the keys are deleted but the object is left extensible
SlotsStepOpen(o, slots) ==
    IF ~slots.use THEN o
    ELSE LET Keep(k) == k \in slots.names \cup Reserved IN
         [o EXCEPT !.keys = SelectSeq(@, Keep),
                   !.bind = [n \in MemberNames |-> IF Keep(n) THEN @[n] ELSE 0],
                   !.acc = IF Keep(PropName) THEN @ ELSE NoProps]

\* variant: only data fields are deleted, members and accessors stay
SlotsStepDataOnly(o, slots) ==
    IF ~slots.use THEN o
    ELSE LET Keep(k) ==
                 \/ k \in slots.names \cup Reserved
                 \/ k \in MemberNames
                 \/ k = PropName
         IN [o EXCEPT !.keys = SelectSeq(@, Keep), !.ext = FALSE]

\* step 6: delete the keys outside the slots, then Object.preventExtensions
SlotsStep(o, slots) ==
    IF ~slots.use THEN o
    ELSE LET Keep(k) == k \in slots.names \cup Reserved IN
         [o EXCEPT !.keys = SelectSeq(@, Keep),
                   !.bind = [n \in MemberNames |-> IF Keep(n) THEN @[n] ELSE 0],
                   !.acc = IF Keep(PropName) THEN @ ELSE NoProps,
                   !.ext = FALSE]

\* variant: own members first, then every parent's members copied over them
RECURSIVE CopyDef(_, _, _)
CopyDef(o, B, j) ==
    IF j > Len(classes[B].def) THEN o
    ELSE CopyDef(SetMember(o, classes[B].def[j], B), B, j + 1)

RECURSIVE CopyBases(_, _, _)
CopyBases(o, bases, i) ==
    IF i > Len(bases) THEN o
    ELSE CopyBases(CopyDef(o, bases[i], 1), bases, i + 1)

RawInstanceBasesLast(cls) ==
    LET o2 == [NoInst EXCEPT !.cls = cls, !.keys = <<"__class__", "__super__">>]
        o3 == OwnMembers(o2, cls, classes[cls].def, 1)
        o4 == CopyBases(o3, classes[cls].bases, 1)
        o5 == PropsStep(o4, definitions[cls].props)
    IN SlotsStep(o5, classes[cls].slots)

\* steps 2 to 6 of new cls(): the raw instance __init__ receives
RawInstance(cls) ==
    LET o2 == [NoInst EXCEPT !.cls = cls, !.keys = <<"__class__", "__super__">>]
        o3 == InheritBases(o2, classes[cls].bases, classes[cls].def, 1)
        o4 == OwnMembers(o3, cls, classes[cls].def, 1)
        o5 == PropsStep(o4, definitions[cls].props)
    IN SlotsStep(o5, classes[cls].slots)

\* a method activation: the function classes[owner].def[name] running on the
\* instance; via says what called it ("ctor": step 7 of the constructor,
\* "super": __super__, "member": the bound wrapper of steps 3 and 4); from is
\* the context __super__ scanned from, 0 for the other two; pc counts the
\* statements a scripted body has executed.
Frame(owner, name, via, from) ==
    [owner |-> owner, name |-> name, via |-> via, from |-> from, pc |-> 0]

Top == stack[Len(stack)]

\* An exception raised while st is the call stack is caught by the
\* activation at depth k (try/catch in user code), or by the program around
\* the outermost call when k = 0.  The activations above k are left without
\* running anything: __super__ has no try/finally, and a constructor that
\* throws returns no instance.
Raise(kind, st, k) ==
    /\ exc' = kind
    /\ stack' = SubSeq(st, 1, k)
    /\ inst' = IF k = 0 /\ Len(st) > 0 /\ st[1].via = "ctor" THEN NoInst
               ELSE inst

\* ------------------------------------------------------------ __super__
\* a __super__ call: the class of the instance it was made on, the name
\* asked for, the context and the MRO it scanned from, and the class it
\* found (0: none)
NoCall == [cls |-> 0, name |-> "", from |-> 0, mro |-> << >>, target |-> 0]

\* typeof base.__definition__?.[methodName] === "function".  __definition__
\* is the plain object { ...instanceMembers }: the lookup finds its own
\* members (all functions here) and what it inherits from Object.prototype.
IsFunction(base, methodName) ==
    \/ methodName \in Range(classes[base].def)
    \/ methodName \in ProtoNames

\* for (let j = idx + 1; j < mro.length; j++): the first class at a 0-based
\* position j or above whose __definition__ has a function under
\* methodName; 0 when the loop ends without finding one.
RECURSIVE SuperLookup(_, _, _)
SuperLookup(mro, j, methodName) ==
    IF j >= Len(mro) THEN 0
    ELSE IF IsFunction(mro[j + 1], methodName) THEN mro[j + 1]
    ELSE SuperLookup(mro, j + 1, methodName)

\* variant: the scan always starts from the instance's class
SuperCtxFixed(o) == o.cls

\* const ctx = this._superContext || cls
SuperCtx(o) == IF o.ctx # 0 THEN o.ctx ELSE o.cls

\* instance.__super__(methodName) called while st is the call stack.
\* mro is the array cls.__mro__ itself, read when the call is made.
Super(methodName, st) ==
    LET mro == classes[inst.cls].mro
        ctx == SuperCtx(inst)
        idx == IndexOf(mro, ctx)
        base == SuperLookup(mro, idx + 1, methodName)
    IN /\ call' = [cls |-> inst.cls, name |-> methodName, from |-> ctx,
                   mro |-> mro, target |-> base]
       /\ IF base = 0
          THEN \* throw new Error("__super__(): method not found")
               \E k \in 0..Len(st) : Raise("Error", st, k)
          ELSE IF ~inst.ext /\ inst.ctx = 0
          THEN \* this._superContext = base on a non-extensible object
               \E k \in 0..Len(st) : Raise("TypeError", st, k)
          ELSE IF methodName \notin Range(classes[base].def)
          THEN \* the function is Object.prototype's: called with the
               \* instance as argument and no receiver it returns a string
               \* at once; then delete this._superContext; return result
               /\ exc' = "none"
               /\ inst' = [inst EXCEPT !.ctx = 0]
               /\ stack' = st
          ELSE /\ exc' = "none"
               /\ inst' = [inst EXCEPT !.ctx = base]
               /\ stack' = Append(st, Frame(base, methodName, "super", ctx))

\* obj[k] = v for a field name: v itself is not modelled.  On an object
\* that is not extensible a new key is refused: a TypeError in strict code,
\* nothing at all in sloppy code.
Assign(key, strict, st) ==
    IF HasKey(inst, key)
    THEN /\ inst' = inst /\ stack' = st /\ exc' = "none"
    ELSE IF inst.ext
    THEN /\ inst' = [inst EXCEPT !.keys = Append(@, key)]
         /\ stack' = st /\ exc' = "none"
    ELSE IF strict
    THEN \E k \in 0..Len(st) : Raise("TypeError", st, k)
    ELSE /\ inst' = inst /\ stack' = st /\ exc' = "none"

\* ------------------------------------------- state outside the instance
\* newSingleton: no instance constructed, cls._instance not set, no
\* getInstance call in progress
NoSingleton ==
    [objs |-> << >>, cached |-> 0, calls |-> << >>, returned |-> << >>,
     writes |-> 0]

\* memoize(fn, keyFn, maxSize), called as in its doc comment with a keyFn
\* that looks at the id of its argument only
MemoArgs == [id : 1..MaxMemoIds, tag : {"p", "q"}]

keyFn(a) == "k" \o ToString(a.id)

fn(a) == a.tag \o ToString(a.id)

MemoKeys == {keyFn(a) : a \in MemoArgs}
NotCached == "-"

\* const cache = new Map(); const keys = []
NoMemo ==
    [cache |-> [k \in MemoKeys |-> NotCached], keys |-> << >>,
     used |-> << >>, last |-> [key |-> "", invoked |-> FALSE, hit |-> FALSE]]

\* the steps that touch none of this
Aside ==
    /\ out' = NoOut
    /\ UNCHANGED <<definitions, vals, sgl, memo>>

\* newClass has returned (or not) a class made from definition object d
Declared(d) ==
    /\ definitions' = IF Len(classes') > Len(classes)
                       THEN Append(definitions, d) ELSE definitions
    /\ out' = NoOut
    /\ UNCHANGED <<vals, sgl, memo>>

\* ----------------------------------------------------------------- Init
Init ==
    /\ definitions = << >>
    /\ vals = NoVals
    /\ out = NoOut
    /\ sgl = NoSingleton
    /\ memo = NoMemo
    /\ classes = << >>
    /\ mro0 = << >>
    /\ hung = FALSE
    /\ lastDef = [bases |-> << >>, conflict |-> FALSE, returned |-> FALSE]
    /\ inst = NoInst
    /\ stack = << >>
    /\ exc = "none"
    /\ call = NoCall
    /\ ran = << >>

\* ------------------------------------------------------------- newClass
\* newClass(name, definition, ...bases): bases are constructors returned
\* earlier, in any order and with repeats; def is the key order of
\* instanceMembers; slots is definition.__slots__.
newClass(bases, def, slots) ==
    /\ ~hung
    /\ stack = << >>
    /\ LET cls == Len(classes) + 1
           lin == linearize(cls, bases)
           old == [c \in 1..Len(classes) |->
                      [classes[c] EXCEPT !.mro = lin.mros[c]]]
       IN /\ lastDef' = [bases |-> bases, conflict |-> Conflict(bases),
                         returned |-> ~lin.spin]
          /\ IF lin.spin
             THEN /\ hung' = TRUE
                  /\ classes' = old
                  /\ mro0' = mro0
             ELSE /\ hung' = FALSE
                  /\ classes' = Append(old, [bases |-> bases, def |-> def,
                                             slots |-> slots, mro |-> lin.mro])
                  /\ mro0' = Append(mro0, lin.mro)
    /\ exc' = "none"
    /\ call' = NoCall
    /\ UNCHANGED <<inst, stack, ran>>

NoSlots == [use |-> FALSE, names |-> {}]

Defs == {d \in SeqsUpTo(Names, Cardinality(Names)) : NoDup(d)}

SlotChoices ==
    {NoSlots, [use |-> TRUE, names |-> {"a"}],
     [use |-> TRUE, names |-> {"a", "m"}]}

\* a class with no members: only the linearization is exercised
DefineBare ==
    /\ Len(classes) < MaxClasses
    /\ \E bases \in SeqsUpTo(1..Len(classes), MaxParents) :
          newClass(bases, << >>, NoSlots)
    /\ Declared(Plain(<< >>))

\* lists of distinct parents
BaseLists == {b \in SeqsUpTo(1..Len(classes), MaxParents) : NoDup(b)}

\* classes with members and no __slots__
DefineClass ==
    /\ Len(classes) < MaxObjClasses
    /\ \E bases \in BaseLists, def \in Defs :
          newClass(bases, def, NoSlots) /\ Declared(Plain(def))

\* classes with members, with or without __slots__
DefineSlotted ==
    /\ Len(classes) < MaxSlotClasses
    /\ \E bases \in BaseLists, def \in Defs, slots \in SlotChoices :
          newClass(bases, def, slots) /\ Declared(Plain(def))

\* ------------------------------------------------------- new cls(...args)
\* what a declared __new__ may return
AllocResults == {Obj, Undefined, Null, False, Zero, Empty, One, StrA, True}

\* step 1.  "default": the instance is Object.create(prototype); "given":
\* it is the object __new__ returned (taken to be a fresh empty one);
\* "throw": TypeError("__new__ must return an object or undefined")
NewStep(declared, r) ==
    IF ~declared THEN "default"
    ELSE IF Falsy(r) THEN "default"
    ELSE IF r.type # "object" THEN "throw"
    ELSE "given"

\* variant: without an own __init__ the first parent's is the initializer
InitOwnerInherited(cls) ==
    LET has == {i \in 1..Len(classes[cls].bases) :
                  "__init__" \in Range(classes[classes[cls].bases[i]].def)}
    IN IF "__init__" \in Range(classes[cls].def) THEN cls
       ELSE IF has = {} THEN 0
       ELSE classes[cls].bases[CHOOSE i \in has : \A l \in has : i <= l]

\* step 7: typeof def.__init__ === "function", def being the class's own
\* definition object; the class whose __init__ the constructor calls, 0
\* for none
InitOwner(cls) ==
    IF "__init__" \in Range(classes[cls].def) THEN cls ELSE 0

\* Steps 1 to 7 up to the call of def.__init__; without __init__ the
\* constructor returns at once.
Construct ==
    /\ ~hung
    /\ stack = << >>
    /\ \E cls \in 1..Len(classes) :
          LET declared == "__new__" \in Range(definitions[cls].keys)
              o == RawInstance(cls)
          IN \E r \in IF declared THEN AllocResults ELSE {Undefined} :
                /\ out' = IF declared
                           THEN [NoOut EXCEPT !.op = "new", !.val = r]
                           ELSE NoOut
                /\ IF NewStep(declared, r) = "throw"
                   THEN /\ exc' = "TypeError"
                        /\ inst' = NoInst
                        /\ stack' = << >>
                        /\ ran' = << >>
                   ELSE IF InitOwner(cls) # 0
                   THEN /\ exc' = "none"
                        /\ inst' = o
                        /\ stack' = <<Frame(InitOwner(cls), "__init__",
                                             "ctor", 0)>>
                        /\ ran' = <<InitOwner(cls)>>
                   ELSE /\ exc' = "none"
                        /\ inst' = [o EXCEPT !.built = TRUE]
                        /\ stack' = << >>
                        /\ ran' = << >>
    /\ call' = NoCall
    /\ vals' = NoVals
    /\ UNCHANGED <<classes, mro0, hung, lastDef, definitions, sgl, memo>>

\* ------------------------------------------------ the program, top level
AtTop == ~hung /\ stack = << >> /\ inst.built

ExtSuper ==
    /\ AtTop
    /\ \E n \in Names \cup ProtoNames : Super(n, stack)
    /\ UNCHANGED <<classes, mro0, hung, lastDef, ran>>
    /\ Aside

ExtCall ==
    /\ AtTop
    /\ \E n \in Names :
          /\ HasKey(inst, n) /\ inst.bind[n] # 0
          /\ stack' = <<Frame(inst.bind[n], n, "member", 0)>>
    /\ exc' = "none"
    /\ call' = NoCall
    /\ UNCHANGED <<classes, mro0, hung, lastDef, inst, ran>>
    /\ Aside

ExtAssign ==
    /\ AtTop
    /\ \E key \in FieldKeys, strict \in BOOLEAN : Assign(key, strict, stack)
    /\ call' = NoCall
    /\ UNCHANGED <<classes, mro0, hung, lastDef, ran>>
    /\ Aside

\* ------------------------------------------- user code inside a method
Running == stack # << >>

DoSuper ==
    /\ Running
    /\ Len(stack) < MaxDepth
    /\ \E n \in Names \cup ProtoNames : Super(n, stack)
    /\ UNCHANGED <<classes, mro0, hung, lastDef, ran>>
    /\ Aside

DoCall ==
    /\ Running
    /\ Len(stack) < MaxDepth
    /\ \E n \in Names :
          /\ HasKey(inst, n) /\ inst.bind[n] # 0
          /\ stack' = Append(stack, Frame(inst.bind[n], n, "member", 0))
    /\ exc' = "none"
    /\ call' = NoCall
    /\ UNCHANGED <<classes, mro0, hung, lastDef, inst, ran>>
    /\ Aside

DoAssign ==
    /\ Running
    /\ \E key \in FieldKeys, strict \in BOOLEAN : Assign(key, strict, stack)
    /\ call' = NoCall
    /\ UNCHANGED <<classes, mro0, hung, lastDef, ran>>
    /\ Aside

DoThrow ==
    /\ Running
    /\ \E k \in 0..Len(stack) : Raise("user", stack, k)
    /\ call' = NoCall
    /\ UNCHANGED <<classes, mro0, hung, lastDef, ran>>
    /\ Aside

\* the activation returns; what its caller in the library does next:
\*   via "super":  delete this._superContext; return result
\*   via "ctor":   the constructor wraps the instance and returns it
\*   via "member": the bound wrapper returns
DoReturn ==
    /\ Running
    /\ stack' = SubSeq(stack, 1, Len(stack) - 1)
    /\ inst' = IF Top.via = "super" THEN [inst EXCEPT !.ctx = 0]
               ELSE IF Top.via = "ctor" THEN [inst EXCEPT !.built = TRUE]
               ELSE inst
    /\ exc' = "none"
    /\ call' = NoCall
    /\ UNCHANGED <<classes, mro0, hung, lastDef, ran>>
    /\ Aside

\* ------------------------------- the cooperative initializers (example)
(* The bodies of the Base / Animal / Dog example: the __init__ of a class    *)
(* with parents runs self.__super__("__init__", ...) first and then assigns *)
(* the field of its own class; the __init__ of a class without parents only *)
(* assigns.  No body has a try/catch.                                       *)
FieldNames == <<"f1", "f2", "f3", "f4", "f5">>

FieldOf(cls) == FieldNames[cls]

DefineChain ==
    /\ Len(classes) < MaxChainClasses
    /\ \E bases \in SeqsUpTo(1..Len(classes), MaxParents) :
          newClass(bases, <<"__init__">>, NoSlots)
    /\ Declared(Plain(<<"__init__">>))

\* the same classes, each with or without an __init__ of its own
DefineInit ==
    /\ Len(classes) < MaxChainClasses
    /\ \E bases \in BaseLists, def \in {<< >>, <<"__init__">>} :
          newClass(bases, def, NoSlots) /\ Declared(Plain(def))

\* self.__super__("__init__", ...)
CoopSuper ==
    /\ Running
    /\ Top.pc = 0
    /\ classes[Top.owner].bases # << >>
    /\ Len(stack) < MaxDepth
    /\ Super("__init__", [stack EXCEPT ![Len(stack)].pc = 1])
    /\ exc' # "none" => stack' = << >>
    /\ ran' = IF exc' = "none" THEN Append(ran, stack'[Len(stack')].owner)
               ELSE ran
    /\ UNCHANGED <<classes, mro0, hung, lastDef>>
    /\ Aside

\* self.<own field> = ...
CoopAssign ==
    /\ Running
    /\ \/ Top.pc = 1
       \/ Top.pc = 0 /\ classes[Top.owner].bases = << >>
    /\ Assign(FieldOf(Top.owner), TRUE, [stack EXCEPT ![Len(stack)].pc = 2])
    /\ call' = NoCall
    /\ UNCHANGED <<classes, mro0, hung, lastDef, ran>>
    /\ Aside

CoopReturn ==
    /\ Running
    /\ Top.pc = 2
    /\ DoReturn

\* --------------------------------- bodies that count their __super__ calls
\* self.__super__(n, ...) as the first or the second such call of the
\* running body (pc counts them); no body has a try/catch
NestSuper ==
    /\ Running
    /\ Top.pc < 2
    /\ Len(stack) < MaxDepth
    /\ \E n \in Names \cup ProtoNames :
          Super(n, [stack EXCEPT ![Len(stack)].pc = @ + 1])
    /\ exc' # "none" => stack' = << >>
    /\ UNCHANGED <<classes, mro0, hung, lastDef, ran>>
    /\ Aside

\* --------------------------------------- classes with special top-level keys
\* definition objects whose top-level keys are drawn from K, in any order
KeyLists(K) == {d \in SeqsUpTo(K, Cardinality(K)) : NoDup(d)}

\* classes that may declare __new__
DefineNew ==
    /\ Len(classes) < MaxNewClasses
    /\ \E bases \in BaseLists, keys \in KeyLists({"__new__", "__init__", "m"}) :
          /\ newClass(bases, instanceMembers(keys), NoSlots)
          /\ Declared([keys |-> keys, props |-> NoProps])

\* ----------------------------------------------------------- data fields
\* obj[key] = v for a data field
Store(key, v, strict, st) ==
    /\ Assign(key, strict, st)
    /\ vals' = IF HasKey(inst, key) \/ inst.ext
               THEN [vals EXCEPT ![key] = v] ELSE vals

\* the program assigns x or y on the instance it holds
StoreXY ==
    /\ AtTop
    /\ \E key \in {"x", "y"}, v \in Values, strict \in BOOLEAN :
          /\ Store(key, v, strict, stack)
          /\ out' = [NoOut EXCEPT !.op = "store", !.hint = key, !.arg = v]
    /\ call' = NoCall
    /\ UNCHANGED <<classes, mro0, hung, lastDef, ran, definitions, sgl, memo>>

\* __init__ assigns x or y on the instance it receives (self.x = ...)
InitStore ==
    /\ Running
    /\ Top.via = "ctor"
    /\ \E key \in {"x", "y"}, v \in Values, strict \in BOOLEAN :
          /\ Store(key, v, strict, stack)
          /\ out' = [NoOut EXCEPT !.op = "store", !.hint = key, !.arg = v]
    /\ call' = NoCall
    /\ UNCHANGED <<classes, mro0, hung, lastDef, ran, definitions, sgl, memo>>

FieldSlotChoices ==
    {NoSlots, [use |-> TRUE, names |-> {"x"}],
     [use |-> TRUE, names |-> {"x", "__init__"}]}

\* classes whose __slots__ list a data field that nothing declares
DefineFields ==
    /\ Len(classes) < MaxSlotClasses
    /\ \E bases \in BaseLists, keys \in KeyLists({"__init__"}),
          slots \in FieldSlotChoices :
          /\ newClass(bases, instanceMembers(keys), slots)
          /\ Declared([keys |-> keys, props |-> NoProps])

\* ------------------------------------------ the Proxy: Symbol.toPrimitive
\* the name passed to newClass
ClassName(c) == "K" \o ToString(c)

\* what the __str__ / __int__ declared by class owner returns
StrResult(owner) == Val("string", "<" \o ClassName(owner) \o ".__str__>")
IntResult(owner) == Val("number", "<" \o ClassName(owner) \o ".__int__>")

\* typeof target[k] === "function"
IsMethod(o, k) == k \in MemberNames /\ HasKey(o, k) /\ o.bind[k] # 0

\* target[k] on an own key of the instance: a bound method, the class name,
\* the __super__ function, the accessor's getter result, or a data field
KeyValue(o, v, k) ==
    IF k = "__class__" THEN Val("string", ClassName(o.cls))
    ELSE IF k = "__super__" \/ IsMethod(o, k) THEN Val("function", k)
    ELSE IF k = PropName /\ o.acc.on
    THEN (IF o.acc.get THEN v["_value"] ELSE Undefined)
    ELSE IF k \in ValKeys THEN v[k]
    ELSE Undefined

\* variant: every entry that is not a function is listed
ShownNotFunction(k, val) == val.type # "function"

\* .filter(([k, v]) => typeof v !== "function" && !k.startsWith("_"))
Shown(k, val) == val.type # "function" /\ ~StartsWith1(k)

\* the entries of Object.entries(target) from position i on, filtered,
\* mapped to "k: JSON" and joined with ", "
RECURSIVE Entries(_, _, _, _)
Entries(o, v, i, first) ==
    IF i > Len(o.keys) THEN ""
    ELSE LET k == o.keys[i]
             val == KeyValue(o, v, k)
         IN IF Shown(k, val)
            THEN (IF first THEN "" ELSE ", ") \o k \o ": "
                 \o JSONStringify(val) \o Entries(o, v, i + 1, FALSE)
            ELSE Entries(o, v, i + 1, first)

\* the default fallback
DefaultRepr(o, v) ==
    ClassName(o.cls) \o "({ " \o Entries(o, v, 1, TRUE) \o " })"

\* the function the Proxy returns for Symbol.toPrimitive, applied to hint
ToPrimitive(o, v, hint) ==
    IF hint = "string" /\ IsMethod(o, "__str__")
    THEN StrResult(o.bind["__str__"])
    ELSE IF hint = "number" /\ IsMethod(o, "__int__")
    THEN IntResult(o.bind["__int__"])
    ELSE Val("string", DefaultRepr(o, v))

\* the hints of the language: `${obj}` and String(obj) ask for "string",
\* +obj and arithmetic for "number", obj + "" and == for "default"
Hints == {"string", "number", "default"}

\* the program converts the instance it holds to a primitive
Convert ==
    /\ AtTop
    /\ \E hint \in Hints :
          out' = [NoOut EXCEPT !.op = "toPrimitive", !.hint = hint,
                               !.val = ToPrimitive(inst, vals, hint)]
    /\ exc' = "none"
    /\ call' = NoCall
    /\ UNCHANGED <<classes, mro0, hung, lastDef, inst, stack, ran,
                   definitions, vals, sgl, memo>>

StrSlotChoices ==
    {NoSlots, [use |-> TRUE, names |-> {"x", "y"}],
     [use |-> TRUE, names |-> {"x", "y", "__str__"}]}

\* classes that may declare __str__ and __int__, with or without __slots__
DefineStr ==
    /\ Len(classes) < MaxStrClasses
    /\ \E bases \in BaseLists, keys \in KeyLists({"__str__", "__int__"}),
          slots \in StrSlotChoices :
          /\ newClass(bases, instanceMembers(keys), slots)
          /\ Declared([keys |-> keys, props |-> NoProps])

\* classes whose definition carries keys of every spelling
DefineKeys ==
    /\ Len(classes) < MaxKeyClasses
    /\ \E bases \in BaseLists, keys \in KeyLists({"m", "__repr__", "__init__"}) :
          /\ newClass(bases, instanceMembers(keys), NoSlots)
          /\ Declared([keys |-> keys, props |-> NoProps])

MemberSlotChoices ==
    {NoSlots, [use |-> TRUE, names |-> {"x"}],
     [use |-> TRUE, names |-> {"x", "m", PropName}]}

\* classes with methods, hooks and possibly the property, with or without
\* __slots__
DefineMembers ==
    /\ Len(classes) < MaxSlotClasses
    /\ \E bases \in BaseLists, keys \in KeyLists({"m", "__init__", "__str__"}),
          props \in {NoProps, [on |-> TRUE, get |-> TRUE, set |-> TRUE]},
          slots \in MemberSlotChoices :
          /\ newClass(bases, instanceMembers(keys), slots)
          /\ Declared([keys |-> keys, props |-> props])

\* ------------------------------------------------------------ properties
(* The accessor of step 5 and the functions of the Counter example:         *)
(*   get: (self) => self._value                                             *)
(*   set: (self, val) => { if (typeof val !== "number") throw ...;          *)
(*                         self._value = val }                              *)
(* The result of instance[PropName] = val is [o, vals, exc, got, calls]:    *)
(* the instance, its data fields, what was raised, the value the setter     *)
(* received and the number of times it was invoked.                         *)

\* instance[PropName]: the getter's result, undefined without a getter
ReadProp(o, v) == KeyValue(o, v, PropName)

\* variant: the assignment defines a data field over the accessor
SetterPathShadow(o, v, val) ==
    [o |-> [o EXCEPT !.acc = NoProps], vals |-> [v EXCEPT ![PropName] = val],
     exc |-> "none", got |-> Undefined, calls |-> 0]

\* set: (val) => set(instance, val), with the setter of the example
SetterPath(o, v, val) ==
    IF val.type # "number"
    THEN [o |-> o, vals |-> v, exc |-> "user", got |-> val, calls |-> 1]
    ELSE [o |-> o, vals |-> [v EXCEPT !["_value"] = val], exc |-> "none",
          got |-> val, calls |-> 1]

\* variant: without a setter the assignment replaces the accessor by a
\* data field
NoSetterPathReplace(o, v, val, strict) ==
    [o |-> [o EXCEPT !.acc = NoProps], vals |-> [v EXCEPT ![PropName] = val],
     exc |-> "none", got |-> Undefined, calls |-> 0]

\* set: undefined.  The assignment is refused: a TypeError in strict code,
\* nothing at all in sloppy code
NoSetterPath(o, v, val, strict) ==
    [o |-> o, vals |-> v, exc |-> IF strict THEN "TypeError" ELSE "none",
     got |-> Undefined, calls |-> 0]

\* instance[PropName] = val on an instance that has the accessor
AssignProp(o, v, val, strict) ==
    IF o.acc.set THEN SetterPath(o, v, val)
    ELSE NoSetterPath(o, v, val, strict)

\* the program assigns the property on the instance it holds
PropAssign ==
    /\ AtTop
    /\ inst.acc.on
    /\ \E val \in Values, strict \in BOOLEAN :
          LET r == AssignProp(inst, vals, val, strict) IN
          /\ inst' = r.o
          /\ vals' = r.vals
          /\ exc' = r.exc
          /\ out' = [NoOut EXCEPT !.op = "assign", !.arg = val, !.val = r.got,
                                  !.before = ReadProp(inst, vals),
                                  !.calls = r.calls]
    /\ call' = NoCall
    /\ UNCHANGED <<classes, mro0, hung, lastDef, stack, ran, definitions,
                   sgl, memo>>

\* the program reads the property
PropRead ==
    /\ AtTop
    /\ out' = [NoOut EXCEPT !.op = "read", !.val = ReadProp(inst, vals)]
    /\ exc' = "none"
    /\ call' = NoCall
    /\ UNCHANGED <<classes, mro0, hung, lastDef, inst, stack, ran,
                   definitions, vals, sgl, memo>>

\* the program, or a method, assigns the backing field (self._value += 1)
StoreBacking ==
    /\ AtTop
    /\ \E v \in Values, strict \in BOOLEAN : Store("_value", v, strict, stack)
    /\ call' = NoCall
    /\ out' = NoOut
    /\ UNCHANGED <<classes, mro0, hung, lastDef, ran, definitions, sgl, memo>>

\* classes that may declare the property
DefineProps ==
    /\ Len(classes) < MaxPropClasses
    /\ \E bases \in BaseLists, keys \in KeyLists({"m"}),
          props \in PropChoices \cup {NoProps} :
          /\ newClass(bases, instanceMembers(keys), NoSlots)
          /\ Declared([keys |-> keys, props |-> props])

\* -------------------------------------------------------------- memoize
\* history: key becomes the most recently used one
Touch(used, key) ==
    LET Other(k) == k # key IN Append(SelectSeq(used, Other), key)

\* the function memoize returns, called with a: the new cache and key list
\* (memo.cache[k] = NotCached: the Map has no entry k) and what happened
MemoCall ==
    /\ \E a \in MemoArgs :
          LET key == keyFn(a) IN
          IF memo.cache[key] # NotCached
          THEN \* return cache.get(key)
               memo' = [memo EXCEPT
                          !.used = Touch(@, key),
                          !.last = [key |-> key, invoked |-> FALSE,
                                    hit |-> TRUE]]
          ELSE LET result == fn(a)
                   full == Len(memo.keys) >= MemoMaxSize
                   oldestKey == IF full THEN memo.keys[1] ELSE ""
                   keys1 == IF full THEN Tail(memo.keys) ELSE memo.keys
                   cache1 == IF full /\ oldestKey # ""
                             THEN [memo.cache EXCEPT ![oldestKey] = NotCached]
                             ELSE memo.cache
               IN memo' = [memo EXCEPT
                             !.keys = Append(keys1, key),
                             !.cache = [cache1 EXCEPT ![key] = result],
                             !.used = Touch(@, key),
                             !.last = [key |-> key, invoked |-> TRUE,
                                       hit |-> FALSE]]
    /\ out' = NoOut
    /\ UNCHANGED <<classes, mro0, hung, lastDef, inst, stack, exc, call, ran,
                   definitions, vals, sgl>>

\* --------------------------------------------------------- newSingleton
(* One singleton, made from the definition of the example:                  *)
(*   __init__(self, { id }) { self.id = id }                                *)
(* sgl.objs are the instances new cls(...) has allocated, each with its id  *)
(* field and the number of times __init__ was invoked on it; sgl.cached is  *)
(* cls._instance (0: not set); sgl.calls are the getInstance activations    *)
(* whose new cls(...args) has not returned yet, innermost last.  An         *)
(* __init__ may itself call the getter before it returns.                   *)
SingletonArgs == {Undefined, One, Two}

\* getInstance(...args), from the program or from the __init__ in progress
GetInstance ==
    /\ Len(sgl.returned) + Len(sgl.calls) < MaxGetCalls
    /\ Len(sgl.calls) < MaxReentry
    /\ \E arg \in SingletonArgs :
          IF sgl.cached # 0
          THEN \* return cls._instance
               /\ sgl' = [sgl EXCEPT !.returned =
                              Append(@, [ref |-> sgl.cached,
                                         made |-> Len(sgl.objs)])]
               /\ out' = [NoOut EXCEPT !.op = "getInstance",
                                       !.before = sgl.objs[sgl.cached].id,
                                       !.val = sgl.objs[sgl.cached].id]
          ELSE \* new cls(...args), up to the call of __init__
               /\ Len(sgl.objs) < MaxGetCalls
               /\ sgl' = [sgl EXCEPT
                             !.objs = Append(@, [id |-> Undefined, inits |-> 1]),
                             !.calls = Append(@, [arg |-> arg,
                                                  obj |-> Len(sgl.objs) + 1])]
               /\ out' = NoOut
    /\ UNCHANGED <<classes, mro0, hung, lastDef, inst, stack, exc, call, ran,
                   definitions, vals, memo>>

\* __init__: destructuring { id } of a missing argument throws; the
\* exception leaves every activation up to the one that catches it (k), and
\* nothing is assigned to cls._instance on the way
InitThrow ==
    /\ sgl.calls # << >>
    /\ sgl.calls[Len(sgl.calls)].arg = Undefined
    /\ \E k \in 0..(Len(sgl.calls) - 1) :
          sgl' = [sgl EXCEPT !.calls = SubSeq(@, 1, k)]
    /\ out' = NoOut
    /\ UNCHANGED <<classes, mro0, hung, lastDef, inst, stack, exc, call, ran,
                   definitions, vals, memo>>

\* __init__: self.id = id
InitAssign ==
    /\ sgl.calls # << >>
    /\ LET top == sgl.calls[Len(sgl.calls)] IN
       /\ top.arg # Undefined
       /\ sgl' = [sgl EXCEPT !.objs[top.obj].id = top.arg]
    /\ out' = NoOut
    /\ UNCHANGED <<classes, mro0, hung, lastDef, inst, stack, exc, call, ran,
                   definitions, vals, memo>>

\* __init__ returns, the constructor returns the instance, and getInstance
\* does cls._instance = <it>; return cls._instance
InitReturn ==
    /\ sgl.calls # << >>
    /\ LET top == sgl.calls[Len(sgl.calls)] IN
       /\ top.arg # Undefined
       /\ sgl' = [sgl EXCEPT
                     !.calls = SubSeq(@, 1, Len(@) - 1),
                     !.cached = top.obj,
                     !.writes = @ + 1,
                     !.returned = Append(@, [ref |-> top.obj,
                                             made |-> Len(sgl.objs)])]
    /\ out' = NoOut
    /\ UNCHANGED <<classes, mro0, hung, lastDef, inst, stack, exc, call, ran,
                   definitions, vals, memo>>

\* the program writes a field through a reference a getter call returned
WriteField ==
    /\ sgl.calls = << >>
    /\ \E i \in 1..Len(sgl.returned), v \in {One, Two} :
          sgl' = [sgl EXCEPT !.objs[sgl.returned[i].ref].id = v]
    /\ out' = NoOut
    /\ UNCHANGED <<classes, mro0, hung, lastDef, inst, stack, exc, call, ran,
                   definitions, vals, memo>>

\* ------------------------------------------------------- specifications
NextMro == DefineBare

SpecMro == Init /\ [][NextMro]_vars

\* method dispatch on instances of classes without slots
Next ==
    \/ DefineClass
    \/ Construct
    \/ ExtSuper
    \/ ExtCall
    \/ DoSuper
    \/ DoCall
    \/ DoThrow
    \/ DoReturn

Spec == Init /\ [][Next]_vars

\* slots: the same program, with field assignments and slotted classes
NextSlots ==
    \/ DefineSlotted
    \/ Construct
    \/ ExtSuper
    \/ ExtCall
    \/ ExtAssign
    \/ DoSuper
    \/ DoCall
    \/ DoAssign
    \/ DoThrow
    \/ DoReturn

SpecSlots == Init /\ [][NextSlots]_vars

\* the cooperative initializer chain
NextChain ==
    \/ DefineChain
    \/ Construct
    \/ CoopSuper
    \/ CoopAssign
    \/ CoopReturn

SpecChain == Init /\ [][NextChain]_vars

\* nested and repeated super-dispatch, without exceptions caught on the way
NextNested ==
    \/ DefineClass
    \/ Construct
    \/ ExtSuper
    \/ ExtCall
    \/ NestSuper
    \/ DoCall
    \/ DoReturn

SpecNested == Init /\ [][NextNested]_vars

\* data fields of slotted instances, assigned by __init__ and afterwards
NextFields ==
    \/ DefineFields
    \/ Construct
    \/ InitStore
    \/ DoReturn
    \/ StoreXY

SpecFields == Init /\ [][NextFields]_vars

\* what the slots step leaves of members, hooks and properties
NextMembers ==
    \/ DefineMembers
    \/ Construct
    \/ DoReturn

SpecMembers == Init /\ [][NextMembers]_vars

\* initializers of classes that may have no __init__ of their own
NextInit ==
    \/ DefineInit
    \/ Construct
    \/ CoopSuper
    \/ CoopAssign
    \/ CoopReturn

SpecInit == Init /\ [][NextInit]_vars

\* the default representation of instances with a backing field and a
\* computed property
NextRepr ==
    \/ DefineProps
    \/ Construct
    \/ StoreBacking
    \/ Convert

SpecRepr == Init /\ [][NextRepr]_vars

\* construction through a declared __new__
NextNew ==
    \/ DefineNew
    \/ Construct
    \/ DoThrow
    \/ DoReturn

SpecNew == Init /\ [][NextNew]_vars

\* conversion of an instance to a primitive
NextStr ==
    \/ DefineStr
    \/ Construct
    \/ StoreXY
    \/ Convert

SpecStr == Init /\ [][NextStr]_vars

\* which definition keys become members
NextKeys ==
    \/ DefineKeys
    \/ Construct
    \/ ExtCall
    \/ DoReturn

SpecKeys == Init /\ [][NextKeys]_vars

\* computed properties
NextProps ==
    \/ DefineProps
    \/ Construct
    \/ StoreBacking
    \/ PropAssign
    \/ PropRead

SpecProps == Init /\ [][NextProps]_vars

\* a memoized function
NextMemo == MemoCall

SpecMemo == Init /\ [][NextMemo]_vars

\* the singleton getter
NextSingleton ==
    \/ GetInstance
    \/ InitThrow
    \/ InitAssign
    \/ InitReturn
    \/ WriteField

SpecSingleton == Init /\ [][NextSingleton]_vars

\* ================================================================ claims
\* positions are 1-based; Pos(s, x) = 0 when x does not occur in s
Pos(s, x) == IndexOf(s, x) + 1

Count(s, x) == Cardinality({i \in 1..Len(s) : s[i] = x})

\* no returned class names cls among its bases
IsLeaf(cls) == \A c \in 1..Len(classes) : cls \notin Range(classes[c].bases)

\* no class so far lists a parent twice
DistinctBases == \A c \in 1..Len(classes) : NoDup(classes[c].bases)

\* the first class strictly after K in mro whose own member table has name,
\* 0 if there is none
FirstAfter(mro, K, name) ==
    LET after == {j \in 1..Len(mro) :
                    /\ Pos(mro, K) > 0
                    /\ j > Pos(mro, K)
                    /\ name \in Range(classes[mro[j]].def)}
    IN IF after = {} THEN 0
       ELSE mro[CHOOSE j \in after : \A l \in after : j <= l]

\* ---- C1 (SpecMro).  Once newClass has returned a class, the contents of
\* its stored MRO never change: in every state each class's __mro__ equals
\* the sequence it held when the class was defined.
C1_MroNeverChanges ==
    \A c \in 1..Len(classes) : classes[c].mro = mro0[c]

\* ---- C2 (SpecMro).  When no class lists a parent twice, for every class
\* K with direct parents P1..Pn, K's MRO starts with K, holds every class of every parent's
\* linearization exactly once, keeps the relative order of each parent's
\* linearization, and keeps P1..Pn in declared order.
C2_MroIsC3Merge ==
    \A K \in 1..Len(classes) :
        LET m == mro0[K]
            P == classes[K].bases
        IN DistinctBases =>
           /\ m[1] = K
           /\ \A i \in 1..Len(P) :
                 LET lin == mro0[P[i]] IN
                 /\ \A x \in Range(lin) : Count(m, x) = 1
                 /\ \A a, b \in 1..Len(lin) :
                       a < b => Pos(m, lin[a]) < Pos(m, lin[b])
           /\ \A i, j \in 1..Len(P) : i < j => Pos(m, P[i]) < Pos(m, P[j])

\* ---- C3 (SpecMro).  For classes defined one after another as A (no
\* parents), B(A), C(A), D(B, C), the MRO stored on D when newClass returns
\* is exactly [D, B, C, A].
IsDiamond(A) ==
    /\ A + 3 <= Len(classes)
    /\ classes[A].bases = << >>
    /\ classes[A + 1].bases = <<A>>
    /\ classes[A + 2].bases = <<A>>
    /\ classes[A + 3].bases = <<A + 1, A + 2>>

C3_DiamondMro ==
    \A A \in 1..Len(classes) :
        IsDiamond(A) => mro0[A + 3] = <<A + 3, A + 1, A + 2, A>>

C3_Witness ==
    \E A \in 1..Len(classes) :
        IsDiamond(A) /\ classes[A + 3].mro = <<A + 3, A + 1, A + 2, A>>

\* ---- C4 (SpecMro).  When the linearizations of distinct parents admit no
\* C3 merge, newClass terminates (it is not stuck in the merge) and returns
\* no constructor.
C4_ConflictRaises ==
    (lastDef.conflict /\ NoDup(lastDef.bases) /\ DistinctBases) =>
        (~hung /\ ~lastDef.returned)

\* ---- C5 (Spec).  Every super-dispatch call made from the body of a method
\* of class K (the instance's class, or an ancestor whose method was itself
\* reached by super-dispatch) resolves to the first class strictly after K,
\* in the MRO of the instance's class, whose own member table defines the
\* method name.  Stated for instances whose class still has the MRO it was
\* defined with.
C5_SuperAfterCaller ==
    \A i \in 2..Len(stack) :
        LET K == stack[i - 1].owner IN
        ( /\ stack[i].via = "super"
          /\ (K = inst.cls \/ stack[i - 1].via = "super")
          /\ classes[inst.cls].mro = mro0[inst.cls] ) =>
            stack[i].owner = FirstAfter(mro0[inst.cls], K, stack[i].name)

\* ---- C6 (SpecChain).  In a hierarchy Base <- Mid <- Leaf whose __init__s
\* super-dispatch "__init__" before their own assignment, constructing Leaf
\* runs the three initializers once each (Leaf's, then Mid's, then Base's
\* start, none twice) and the fields appear in the order Base, Mid, Leaf.
IsChain(Leaf, Mid, Base) ==
    /\ classes[Leaf].bases = <<Mid>>
    /\ classes[Mid].bases = <<Base>>
    /\ classes[Base].bases = << >>
    /\ IsLeaf(Leaf)

IsPrefix(s, t) == Len(s) <= Len(t) /\ SubSeq(t, 1, Len(s)) = s

IsField(k) == k \in Range(FieldNames)

C6_CooperativeInit ==
    \A Leaf, Mid, Base \in 1..Len(classes) :
        (inst.cls = Leaf /\ IsChain(Leaf, Mid, Base)) =>
            /\ IsPrefix(ran, <<Leaf, Mid, Base>>)
            /\ IsPrefix(SelectSeq(inst.keys, IsField),
                        <<FieldOf(Base), FieldOf(Mid), FieldOf(Leaf)>>)
            /\ inst.built =>
                  /\ ran = <<Leaf, Mid, Base>>
                  /\ SelectSeq(inst.keys, IsField) =
                        <<FieldOf(Base), FieldOf(Mid), FieldOf(Leaf)>>

C6_Witness ==
    \E Leaf, Mid, Base \in 1..Len(classes) :
        /\ inst.cls = Leaf /\ IsChain(Leaf, Mid, Base)
        /\ inst.built
        /\ ran = <<Leaf, Mid, Base>>

\* ---- C7 (Spec).  Whenever no super-dispatch call is in progress on the
\* instance, the instance carries no super context.
C7_NoContextOutsideSuper ==
    (\A i \in 1..Len(stack) : stack[i].via # "super") => inst.ctx = 0

\* ---- C8 (Spec).  A super-dispatch call for a method name that no class
\* after the current context in the MRO defines in its own member table
\* raises the "method not found" error (and so returns no value and invokes
\* no method).
DefinedAfter(mro, ctx, name) ==
    \E j \in 1..Len(mro) :
        j > Pos(mro, ctx) /\ name \in Range(classes[mro[j]].def)

C8_MissingSuperRaises ==
    (call # NoCall /\ ~DefinedAfter(call.mro, call.from, call.name))
        => exc = "Error"

\* ---- C9 (Spec).  If a class and one of its direct parents both declare a
\* member with the same name, then on every instance of the class the member
\* is the class's own version, and no call of it runs the parent's version.
Shadows(cls, n) ==
    /\ n \in Range(classes[cls].def)
    /\ \E p \in Range(classes[cls].bases) : n \in Range(classes[p].def)

C9_OwnMemberWins ==
    inst.cls # 0 =>
        \A n \in Names :
            Shadows(inst.cls, n) =>
                /\ HasKey(inst, n)
                /\ inst.bind[n] = inst.cls
                /\ \A i \in 1..Len(stack) :
                      (stack[i].via = "member" /\ stack[i].name = n) =>
                          stack[i].owner = inst.cls

\* a class with two distinct parents that both declare m, called on an instance
C9_Witness ==
    /\ inst.cls # 0
    /\ Shadows(inst.cls, "m")
    /\ Cardinality({p \in Range(classes[inst.cls].bases) :
                       "m" \in Range(classes[p].def)}) = 2
    /\ stack # << >>
    /\ Top.via = "member" /\ Top.name = "m" /\ Top.owner = inst.cls

\* ---- C10 (SpecSlots).  For an instance of a class that declares
\* __slots__, in every state after construction completes the instance's
\* own field names (the super context included) are among the slot names,
\* __class__ and __super__.
C10_SlotsClosed ==
    (inst.built /\ classes[inst.cls].slots.use) =>
        /\ Range(inst.keys) \subseteq classes[inst.cls].slots.names \cup Reserved
        /\ inst.ctx = 0

\* an assignment of an undeclared name, or the bookkeeping of __super__, has
\* just been refused on a slotted instance
C10_Witness ==
    /\ inst.built
    /\ classes[inst.cls].slots.use
    /\ exc = "TypeError"

\* ---- C11 (SpecSingleton).  Once a getter call has returned an instance,
\* every later getter call returns the same reference, constructs nothing
\* (no __init__ runs again: the instance's __init__ ran once and no further
\* instance was made) and leaves the instance's fields as they were.
C11_SingletonIdentity ==
    /\ \A i, j \in 1..Len(sgl.returned) :
          /\ sgl.returned[i].ref = sgl.returned[j].ref
          /\ sgl.returned[i].made = sgl.returned[j].made
    /\ \A i \in 1..Len(sgl.returned) :
          sgl.objs[sgl.returned[i].ref].inits = 1
    /\ out.op = "getInstance" => out.val = out.before

\* ---- C12 (SpecSingleton).  Over any sequence of getter calls, re-entrant
\* ones included, at most one instance is constructed and the cache is
\* written at most once.
C12_SingletonOnce ==
    /\ Len(sgl.objs) <= 1
    /\ sgl.writes <= 1

\* ---- C13 (SpecNew).  When a declared __new__ returns a value that is not
\* an object (undefined, null, false, 0 and "" included), the construction
\* call raises and returns no instance: no default-allocated instance takes
\* the place of the allocator's result.
C13_AllocatorResultChecked ==
    (out.op = "new" /\ out.val # Obj) =>
        (exc = "TypeError" /\ inst = NoInst /\ stack = << >>)

\* ---- C14 (SpecStr).  For an instance of a class that declares __str__,
\* every conversion to a string (hint "string": template interpolation and
\* String(); hint "default": concatenation) returns the result of the
\* class's __str__, also when the class declares __slots__ that do not list
\* __str__.
C14_StrAlwaysUsed ==
    ( /\ out.op = "toPrimitive"
      /\ out.hint \in {"string", "default"}
      /\ "__str__" \in Range(definitions[inst.cls].keys) ) =>
        out.val = StrResult(inst.cls)

\* ---- C15 (SpecStr).  For an instance of a class with no __str__ (its own
\* or an ancestor's) whose fields were assigned in the order x = 1,
\* y = "a", string conversion yields ClassName({ x: 1, y: "a" }).
RECURSIVE Ancestors(_)
Ancestors(c) ==
    Range(classes[c].bases) \cup
        UNION {Ancestors(b) : b \in Range(classes[c].bases)}

IsValKey(k) == k \in ValKeys

HasXY ==
    /\ SelectSeq(inst.keys, IsValKey) = <<"x", "y">>
    /\ vals["x"] = One
    /\ vals["y"] = StrA

NoStr(c) ==
    \A k \in {c} \cup Ancestors(c) : "__str__" \notin Range(definitions[k].keys)

C15_DefaultRepr ==
    ( /\ out.op = "toPrimitive"
      /\ out.hint \in {"string", "default"}
      /\ NoStr(inst.cls)
      /\ HasXY ) =>
        out.val = Val("string", ClassName(inst.cls) \o "({ x: 1, y: \"a\" })")

C15_Witness ==
    /\ out.op = "toPrimitive"
    /\ out.hint = "string"
    /\ NoStr(inst.cls)
    /\ HasXY
    /\ out.val.text = "K1({ x: 1, y: \"a\" })"

\* ---- C16 (SpecKeys).  Every top-level definition key other than the
\* eight recognized ones (keys that begin with two underscores, such as
\* __repr__, included) is recorded in the class's own-member table and is
\* installed, bound to the class's own function, on each instance.
Recognized ==
    {"__new__", "__init__", "__str__", "__int__", "__properties__",
     "__static__", "__class__", "__slots__"}

C16_OtherKeysAreMembers ==
    \A c \in 1..Len(classes) :
        \A k \in Range(definitions[c].keys) \ Recognized :
            /\ k \in Range(classes[c].def)
            /\ inst.cls = c => (HasKey(inst, k) /\ inst.bind[k] = c)

\* ---- C17 (SpecProps).  For a property declared with getter g and setter
\* s: every assignment instance.prop = v invokes s exactly once, with v,
\* and stores nothing under the property name; every read returns g applied
\* to the instance; so after the assignment the read returns what g
\* computes from the state s left.
HasProp(get, set) ==
    /\ inst.cls # 0
    /\ inst.built
    /\ definitions[inst.cls].props = [on |-> TRUE, get |-> get, set |-> set]

C17_PropertyRoundTrip ==
    HasProp(TRUE, TRUE) =>
        /\ inst.acc.on
        /\ vals[PropName] = Undefined
        /\ out.op = "assign" =>
              /\ out.calls = 1
              /\ out.val = out.arg
              /\ exc = "none" => ReadProp(inst, vals) = out.arg
        /\ out.op = "read" => out.val = vals["_value"]

C17_Witness ==
    /\ HasProp(TRUE, TRUE)
    /\ out.op = "assign"
    /\ out.before = One
    /\ out.arg = Two
    /\ ReadProp(inst, vals) = Two

\* ---- C18 (SpecProps).  For a property declared with a getter and no
\* setter: an assignment to the property name through the instance does not
\* change what a read of the property returns, and no data field replaces
\* the accessor.
C18_ReadOnlyProperty ==
    HasProp(TRUE, FALSE) =>
        /\ inst.acc.on
        /\ vals[PropName] = Undefined
        /\ out.op = "assign" =>
              /\ ReadProp(inst, vals) = out.before
              /\ out.calls = 0
        /\ out.op = "read" => out.val = vals["_value"]

C18_Witness ==
    /\ HasProp(TRUE, FALSE)
    /\ out.op = "assign"
    /\ out.before = One
    /\ out.arg = Two
    /\ ReadProp(inst, vals) = One

\* ---- C19 (SpecMemo).  memoize evicts the least recently used key when a
\* new key enters a full cache, a hit counting as a use: the cached keys are
\* at all times the (at most maxSize) most recently used ones, so a key
\* that was hit after the cache filled survives the next insertion.
CachedKeys == {k \in MemoKeys : memo.cache[k] # NotCached}

LastN(s, n) == IF Len(s) <= n THEN s ELSE SubSeq(s, Len(s) - n + 1, Len(s))

C19_LruEviction == CachedKeys = Range(LastN(memo.used, MemoMaxSize))

\* ---- C20 (Spec).  For every method name defined in the own member table
\* of at least one class of MRO(K), an instance of K has a callable member
\* of that name, bound to the implementation of the first class in MRO(K)
\* that defines it, and calling it runs that implementation; grandparents
\* and more distant ancestors included.
FirstDefiner(mro, name) ==
    LET at == {j \in 1..Len(mro) : name \in Range(classes[mro[j]].def)}
    IN IF at = {} THEN 0
       ELSE mro[CHOOSE j \in at : \A l \in at : j <= l]

C20_MembersFromMro ==
    inst.cls # 0 =>
        \A n \in Names :
            LET D == FirstDefiner(mro0[inst.cls], n) IN
            D # 0 =>
                /\ HasKey(inst, n)
                /\ inst.bind[n] = D
                /\ \A i \in 1..Len(stack) :
                      (stack[i].via = "member" /\ stack[i].name = n) =>
                          stack[i].owner = D

\* ---- C21 (SpecChain).  Defining a subclass of K changes nothing about
\* K's instances: every super-dispatch call on an instance of K, made
\* before or after a subclass of K was defined, scans the MRO K was defined
\* with and resolves to the class it would resolve to had no subclass been
\* defined (with Base, Animal(Base), Dog(Animal) defined, Animal's __init__
\* still reaches Base's).
C21_SubclassLeavesInstances ==
    call # NoCall =>
        /\ call.mro = mro0[call.cls]
        /\ call.target =
              SuperLookup(mro0[call.cls],
                          IndexOf(mro0[call.cls], call.from) + 1, call.name)

\* ---- C22 (SpecNested).  When a method of an ancestor K, itself reached by
\* super-dispatch, has made a super-dispatch call that returned and makes
\* a second one, the second call scans from K as well: the return of the
\* first restored the context to K.
C22_SecondSuperFromSameClass ==
    \A i \in 2..Len(stack) :
        ( /\ stack[i].via = "super"
          /\ stack[i - 1].via = "super"
          /\ stack[i - 1].pc = 2 ) =>
            stack[i].from = stack[i - 1].owner

\* ---- C23 (SpecNested).  While a method of an ancestor K runs under
\* super-dispatch and calls, as an ordinary member, a method of the
\* instance's own class L, a super-dispatch call made by that method
\* resolves to the first class after L in the MRO that defines the name.
\* Stated for instances whose class still has the MRO it was defined with.
C23_SuperInsideMemberCall ==
    \A i \in 3..Len(stack) :
        ( /\ stack[i].via = "super"
          /\ stack[i - 1].via = "member"
          /\ stack[i - 1].owner = inst.cls
          /\ stack[i - 2].via = "super"
          /\ classes[inst.cls].mro = mro0[inst.cls] ) =>
            stack[i].owner =
                FirstAfter(mro0[inst.cls], inst.cls, stack[i].name)

\* the class whose instance the last store was made on: the instance's, or
\* the class under construction when the constructor threw
StoreClass ==
    IF inst.cls # 0 THEN inst.cls
    ELSE IF ran # << >> THEN ran[1] ELSE 0

\* ---- C24 (SpecFields).  On an instance of a class with __slots__, the
\* assignment of a field that the slots list and that no member or property
\* declares succeeds, in __init__ and after construction, and the field
\* then reads as the value assigned.
C24_SlotFieldAssignable ==
    ( /\ out.op = "store"
      /\ StoreClass # 0
      /\ classes[StoreClass].slots.use
      /\ out.hint \in classes[StoreClass].slots.names ) =>
        /\ exc = "none"
        /\ inst.cls = StoreClass
        /\ HasKey(inst, out.hint)
        /\ KeyValue(inst, vals, out.hint) = out.arg

\* ---- C25 (SpecSlots).  On an instance of a class with __slots__ whose MRO
\* is intact, a super-dispatch call that finds a method defined by an
\* ancestor invokes it: no exception is raised and the ancestor's method
\* is the running activation, reached from the context of the call.
C25_SuperOnSlottedInstance ==
    ( /\ call # NoCall
      /\ classes[call.cls].slots.use
      /\ call.mro = mro0[call.cls]
      /\ call.target # 0
      /\ call.name \in Range(classes[call.target].def) ) =>
        /\ exc = "none"
        /\ stack # << >>
        /\ Top.owner = call.target
        /\ Top.via = "super"

\* ---- C26 (SpecMembers).  On an instance of a class with __slots__, from
\* the moment __init__ is entered: the keys are __class__, __super__ and
\* slot-listed names only; no method or hook outside the slots is a member,
\* own or inherited; the computed property is there only if the slots list
\* it; and the class's own __init__, if declared, has been invoked exactly
\* once (none otherwise).
C26_SlotsRemoveUnlisted ==
    (inst.cls # 0 /\ classes[inst.cls].slots.use) =>
        LET names == classes[inst.cls].slots.names IN
        /\ Reserved \subseteq Range(inst.keys)
        /\ Range(inst.keys) \subseteq names \cup Reserved
        /\ \A n \in MemberNames \ names : ~IsMethod(inst, n) /\ inst.bind[n] = 0
        /\ PropName \notin names => ~inst.acc.on
        /\ ran = IF "__init__" \in Range(classes[inst.cls].def)
                 THEN <<inst.cls>> ELSE << >>

\* __init__ of a slotted class has just been entered; the class inherits m,
\* declares __init__, __str__ and the property, and lists none of them
C26_Witness ==
    /\ inst.cls # 0
    /\ classes[inst.cls].slots = [use |-> TRUE, names |-> {"x"}]
    /\ {"__init__", "__str__"} \subseteq Range(classes[inst.cls].def)
    /\ "m" \notin Range(classes[inst.cls].def)
    /\ \E B \in Range(classes[inst.cls].bases) : "m" \in Range(classes[B].def)
    /\ definitions[inst.cls].props.on
    /\ stack = <<Frame(inst.cls, "__init__", "ctor", 0)>>
    /\ ran = <<inst.cls>>
    /\ inst.keys = <<"__class__", "__super__">>

\* the first parent of cls, in the order of its parent list, that declares
\* __init__; 0 if none does
FirstInitParent(cls) ==
    LET has == {i \in 1..Len(classes[cls].bases) :
                  "__init__" \in Range(classes[classes[cls].bases[i]].def)}
    IN IF has = {} THEN 0
       ELSE classes[cls].bases[CHOOSE i \in has : \A l \in has : i <= l]

\* ---- C27 (SpecInit).  The constructor of a class (without slots) that
\* declares no __init__ of its own invokes no initializer and returns at
\* once: no __init__ has run, none is running, and the instance has none of
\* the fields the initializers assign.  When a parent declares __init__,
\* that function is a callable member of the instance all the same.
C27_NoOwnInitRunsNothing ==
    (inst.cls # 0 /\ "__init__" \notin Range(classes[inst.cls].def)) =>
        /\ ran = << >>
        /\ stack = << >>
        /\ inst.built
        /\ \A c \in 1..Len(classes) : ~HasKey(inst, FieldOf(c))
        /\ FirstInitParent(inst.cls) # 0 =>
               /\ IsMethod(inst, "__init__")
               /\ inst.bind["__init__"] = FirstInitParent(inst.cls)

\* the returned instance of a class without __init__ whose parent declares
\* one: the parent's function is its member and no initializer has run
C27_Witness ==
    /\ inst.cls # 0
    /\ "__init__" \notin Range(classes[inst.cls].def)
    /\ FirstInitParent(inst.cls) # 0
    /\ inst.built
    /\ inst.bind["__init__"] = FirstInitParent(inst.cls)
    /\ inst.keys = <<"__class__", "__super__", "__init__">>
    /\ ran = << >>

\* ---- C28 (SpecMro).  The MRO stored for a class when newClass returns it
\* starts with the class itself and names no class twice, and for a class
\* without parents it is the class alone; the parent list may name a class
\* more than once.
C28_MroSelfFirstNoDup ==
    \A c \in 1..Len(mro0) :
        /\ Len(mro0[c]) >= 1
        /\ mro0[c][1] = c
        /\ NoDup(mro0[c])
        /\ classes[c].bases = << >> => mro0[c] = <<c>>

\* "k: value" for every own key of o from position i on whose value is not
\* a function and whose name is not reserved, joined with ", "
RECURSIVE ListedFields(_, _, _, _)
ListedFields(o, v, i, first) ==
    IF i > Len(o.keys) THEN ""
    ELSE LET k == o.keys[i]
             val == KeyValue(o, v, k)
         IN IF val.type # "function" /\ k \notin Reserved
            THEN (IF first THEN "" ELSE ", ") \o k \o ": "
                 \o JSONStringify(val) \o ListedFields(o, v, i + 1, FALSE)
            ELSE ListedFields(o, v, i + 1, first)

\* ---- C29 (SpecRepr).  A conversion that falls back to the default
\* representation gives ClassName({ ... }) listing exactly the own
\* enumerable keys that are neither functions nor __class__ / __super__, in
\* key order: the backing field _value is listed once assigned, and the
\* computed property is listed with its getter's value.
C29_DefaultReprListsFields ==
    ( /\ out.op = "toPrimitive"
      /\ ~(out.hint = "string" /\ IsMethod(inst, "__str__"))
      /\ ~(out.hint = "number" /\ IsMethod(inst, "__int__")) ) =>
        out.val = Val("string", ClassName(inst.cls) \o "({ "
                                \o ListedFields(inst, vals, 1, TRUE) \o " })")

\* ---- C30 (SpecSingleton).  In every step of the singleton getter: a
\* construction that throws leaves the cache as it was; a getter call made
\* while nothing is cached constructs a new instance with its own
\* arguments; and every instance a getter call returns is the one returned
\* by the first call whose construction completed.
C30_SingletonAfterThrow ==
    [][ /\ ( /\ Len(sgl'.calls) < Len(sgl.calls)
              /\ sgl'.returned = sgl.returned ) =>
                sgl'.cached = sgl.cached
        /\ ( /\ Len(sgl'.calls) > Len(sgl.calls)
              /\ sgl.cached = 0 ) =>
                /\ Len(sgl'.objs) = Len(sgl.objs) + 1
                /\ sgl'.calls[Len(sgl'.calls)].obj = Len(sgl'.objs)
        /\ \A i \in 1..Len(sgl'.returned) :
                sgl'.returned[i].ref = sgl'.returned[1].ref ]_vars

====
